---- MODULE Spec2Model ----
(***************************************************************************)
(* The transcript-to-task pipeline of src/orchestration/pipeline.py and    *)
(* its HTTP entry point src/api/main.py, as a state machine.               *)
(*                                                                         *)
(* A Python dict is a record with a field "keys" (the keys present) and    *)
(* one field per value that matters.  Optional[X] is a set: {} is None     *)
(* and {x} is the value x.  Optional strings use the string "None".        *)
(***************************************************************************)
EXTENDS Integers, Sequences, FiniteSets, TLC

VARIABLES
    store,      \* the PostgreSQL database: reference tables and the tasks table
    mutations,  \* commits another process has made to the reference tables
    now,        \* datetime.utcnow(), as a logical clock
    pc,         \* per request: where process_transcript / run_pipeline stands
    state,      \* per request: the PipelineState dict
    exc,        \* per request: the exception in flight, if any
    result,     \* per request: what run_pipeline returned
    response,   \* per request: what process_transcript gave the HTTP layer
    executed,   \* per request: the graph nodes entered, in order
    llm_calls,  \* per request: llm.invoke calls made
    written     \* per request: task_ids this request inserted into tasks

vars == <<store, mutations, now, pc, state, exc, result, response,
          executed, llm_calls, written>>

----------------------------------------------------------------------------
(* Bounds *)

MaxMutations == 1   \* commits by other processes to the reference tables
MaxInitRows == 1    \* rows the tasks table holds before the first request
MaxSaves == 3       \* save_task_to_db calls a caller makes for one final task

\* the requests; One is the request of the specification of a single run
Runs == {1, 2}
One == {1}

----------------------------------------------------------------------------
(* Values *)

None == {}
Some(x) == {x}
The(o) == CHOOSE x \in o : TRUE

NoneStr == "None"
Absent == "<absent>"       \* a key a dict does not have
NotFetched == -1           \* an initial_state entry not evaluated yet

Transcripts == {"Dr. Chen here. Review medications.", "Someone needs to do something."}
TranscriptIds == {None, Some(7)}

VersionNames == <<"v1", "v2", "v3", "v4">>

\* keys of the task payload that the code reads
LM == "lineage_metadata"
PC == "lineage_metadata.processing_chain"
RequiredBySave == {"description", "priority_score", "priority_level",
                   LM, "qa_metadata", "prioritization_metadata"}

\* a task payload: the dict an agent replies with
Payload(ks, ch) == [keys |-> ks, chain |-> ch]

\* a lineage record the generation service wrote by itself
ForeignEntry(name) ==
    [agent_name |-> name, agent_version |-> "llm", policy_version |-> "v0",
     timestamp |-> 0]

NoExc == [type |-> NoneStr, at |-> NoneStr]
Raised(t, where) == [type |-> t, at |-> where]

----------------------------------------------------------------------------
(* Database tools *)

\* fetch_db_context: four SELECTs on one connection, each a statement of its
\* own that reads what is committed when it runs; `table` is the one to run
\* next and ctx the rows fetched so far
ContextTables == <<"participants", "patients", "categories", "slas">>

fetch_db_context(db, ctx, table) == [ctx EXCEPT ![table] = db[table]]

\* fetch_active_policy, had it returned an empty dict when no policy is active
fetch_active_policy_no_default(db) ==
    IF db.policy = None
    THEN [policy_version |-> Absent, rules |-> Absent]
    ELSE LET policy == The(db.policy) IN
         [policy_version |->
              IF policy.policy_data.policy_version # Absent
              THEN policy.policy_data.policy_version
              ELSE policy.policy_version,
          rules |-> policy.policy_data.rules]

\* fetch_active_policy: {"policy_version": row.policy_version, **row.policy_data},
\* so a policy_version key inside policy_data replaces the column's value
fetch_active_policy(db) ==
    IF db.policy = None
    THEN [policy_version |-> "none", rules |-> "{}"]
    ELSE LET policy == The(db.policy) IN
         [policy_version |->
              IF policy.policy_data.policy_version # Absent
              THEN policy.policy_data.policy_version
              ELSE policy.policy_version,
          rules |-> policy.policy_data.rules]

\* fetch_priority_weights
fetch_priority_weights(db) == [rows |-> db.weights]

\* save_task_to_db: task[k] raises KeyError for each key read with [];
\* the INSERT adds one row with a fresh serial task_id, status 'pending'
SaveKeyError(task) == ~(RequiredBySave \subseteq task.keys)

TaskRow(db, task, transcript_id) ==
    [task_id |-> db.next_id, transcript_id |-> transcript_id,
     task |-> task, status |-> "pending"]

\* save_task_to_db, had it looked for a row of the same task and transcript
\* before inserting
save_task_to_db_upsert(db, task, transcript_id) ==
    IF \E i \in 1..Len(db.tasks) :
           /\ db.tasks[i].task = task
           /\ db.tasks[i].transcript_id = transcript_id
    THEN db
    ELSE [db EXCEPT !.tasks = Append(@, TaskRow(db, task, transcript_id)),
                    !.next_id = @ + 1]

save_task_to_db(db, task, transcript_id) ==
    [db EXCEPT !.tasks = Append(@, TaskRow(db, task, transcript_id)),
               !.next_id = @ + 1]

----------------------------------------------------------------------------
(* The generation service: what llm.invoke and load_prompt can give a node *)

EmptyPayload == Payload({}, <<>>)

\* json.dumps of a state entry put in a prompt: null when the entry is None
Shown(o) == IF o = None THEN EmptyPayload ELSE The(o)

\* load_prompt raised / llm.invoke raised / response.content is not JSON
TaskFailures ==
    { [kind |-> k, obj |-> EmptyPayload] :
        k \in {"render_error", "invoke_error", "not_json"} }

TaskReplies(objs) == TaskFailures \cup { [kind |-> "json", obj |-> o] : o \in objs }

ExtractionObjects ==
    { Payload({"description"}, <<>>),
      Payload({"description", LM, PC}, <<>>),
      Payload({"description", LM, PC}, <<ForeignEntry("extraction")>>),
      Payload({"description", LM}, <<>>) }

\* replies to the normalization prompt, which shows the extracted task
NormalizationObjects(s) ==
    LET e == Shown(s.extracted_task)
        base == e.keys \cup {"enriched_fields"}
    IN  { Payload(base, e.chain),
          Payload(base, e.chain \o <<ForeignEntry("normalization")>>),
          Payload(base, <<>>),
          Payload(base \ {PC}, <<>>),
          Payload(base \ {LM, PC}, <<>>) }

\* dict.get(key, default): a key that is absent, null, or holds a dict
KeyAbsent == [present |-> FALSE, value |-> None]
KeyNull == [present |-> TRUE, value |-> None]
KeyValue(v) == [present |-> TRUE, value |-> Some(v)]

QAObject(d, reason, cat, vt, md) ==
    [qa_decision |-> d, rejection_reason |-> reason, rejection_category |-> cat,
     validated_task |-> vt, qa_metadata |-> md]

EmptyQA == QAObject(NoneStr, NoneStr, NoneStr, KeyAbsent, FALSE)

\* replies to the QA prompt, which shows the normalized task
QAObjects(s) ==
    LET n == Shown(s.normalized_task)
        corrected == Payload(n.keys \ {LM, PC}, <<>>)
        validated == {KeyAbsent, KeyNull, KeyValue(n), KeyValue(corrected)}
    IN       { QAObject("rejected", reason, cat, KeyAbsent, FALSE) :
                 reason \in {NoneStr, "Missing task description"},
                 cat \in {NoneStr, "missing_data", "not-a-category"} }
        \cup { QAObject("rejected", "Ambiguous reference", "ambiguous_reference",
                        KeyValue(n), TRUE) }
        \cup { QAObject(d, NoneStr, NoneStr, vt, TRUE) :
                 d \in {"accepted", "needs_review", NoneStr}, vt \in validated }
        \cup { QAObject("accepted", "Minor issue", "missing_data", KeyValue(n), md) :
                 md \in BOOLEAN }

QAFailures ==
    { [kind |-> k, obj |-> EmptyQA] :
        k \in {"render_error", "invoke_error", "not_json"} }

QAReplies(s) == QAFailures \cup { [kind |-> "json", obj |-> o] : o \in QAObjects(s) }

PriorityKeys == {"priority_score", "priority_level", "prioritization_metadata"}

\* replies to the prioritization prompt, which shows final_task
PrioritizationObjects(s) ==
    LET f == Shown(s.final_task)
        base == f.keys \cup PriorityKeys
    IN  { Payload(base, f.chain),
          Payload(base, f.chain \o <<ForeignEntry("prioritization")>>),
          Payload(base \ {"qa_metadata"}, f.chain),
          Payload(base \ {"priority_score"}, f.chain),
          Payload(base \ {"prioritization_metadata"}, f.chain),
          Payload(base \ {LM, PC}, <<>>) }

----------------------------------------------------------------------------
(* Agent nodes: PipelineState -> PipelineState, or an exception *)

Ok(s) == [exc |-> NoExc, state |-> s]
Fail(t, where, s) == [exc |-> Raised(t, where), state |-> s]

\* the part every agent node starts with: load_prompt, llm.invoke, json.loads
CallFailure(reply) ==
    CASE reply.kind = "render_error" -> "FileNotFoundError"
      [] reply.kind = "invoke_error" -> "BedrockError"
      [] reply.kind = "not_json" -> "JSONDecodeError"
      [] OTHER -> NoneStr

\* the record both appending nodes build
LineageEntry(agent_name, policy_version, t) ==
    [agent_name |-> agent_name, agent_version |-> "1.0.0",
     policy_version |-> policy_version, timestamp |-> t]

\* extraction_node, had it asked the store for the active policy when it
\* builds its lineage record
extraction_node_live_policy(s, reply, t) ==
    IF CallFailure(reply) # NoneStr THEN Fail(CallFailure(reply), "extraction", s)
    ELSE
    LET extracted == reply.obj
        withLineage == IF LM \notin extracted.keys
                       THEN Payload(extracted.keys \cup {LM, PC}, <<>>)
                       ELSE extracted
    IN  IF PC \notin withLineage.keys THEN Fail("KeyError", "extraction", s)
        ELSE Ok([s EXCEPT !.extracted_task =
                 Some(Payload(withLineage.keys,
                      Append(withLineage.chain,
                             LineageEntry("extraction",
                                          fetch_active_policy(store).policy_version,
                                          t))))])

extraction_node(s, reply, t) ==
    IF CallFailure(reply) # NoneStr THEN Fail(CallFailure(reply), "extraction", s)
    ELSE
    LET extracted == reply.obj
        withLineage == IF LM \notin extracted.keys
                       THEN Payload(extracted.keys \cup {LM, PC}, <<>>)
                       ELSE extracted
    IN  IF PC \notin withLineage.keys THEN Fail("KeyError", "extraction", s)
        ELSE Ok([s EXCEPT !.extracted_task =
                 Some(Payload(withLineage.keys,
                      Append(withLineage.chain,
                             LineageEntry("extraction",
                                          s.policy_snapshot.policy_version, t))))])

normalization_node(s, reply, t) ==
    IF CallFailure(reply) # NoneStr THEN Fail(CallFailure(reply), "normalization", s)
    ELSE
    LET normalized == reply.obj
    IN  IF LM \notin normalized.keys \/ PC \notin normalized.keys
        THEN Fail("KeyError", "normalization", s)
        ELSE Ok([s EXCEPT !.normalized_task =
                 Some(Payload(normalized.keys,
                      Append(normalized.chain,
                             LineageEntry("normalization",
                                          s.policy_snapshot.policy_version, t))))])

\* qa_node, had it copied the reply's rejection fields before looking at the
\* verdict
qa_node_copies_rejection(s, reply, t) ==
    IF CallFailure(reply) # NoneStr THEN Fail(CallFailure(reply), "qa", s)
    ELSE
    LET qa_result == reply.obj
        s1 == [s EXCEPT !.rejection_reason = qa_result.rejection_reason,
                        !.rejection_category = qa_result.rejection_category]
    IN  IF qa_result.qa_decision = "rejected"
        THEN Ok([s1 EXCEPT !.qa_result = Some(qa_result), !.status = "rejected"])
        ELSE
        LET chosen == IF qa_result.validated_task.present
                      THEN qa_result.validated_task.value
                      ELSE s.normalized_task
        IN  IF chosen = None THEN Fail("TypeError", "qa", s)
            ELSE
            LET final == Payload(The(chosen).keys \cup {"qa_metadata"},
                                 The(chosen).chain)
            IN  Ok([s1 EXCEPT !.qa_result = Some(qa_result),
                              !.final_task = Some(final)])

\* qa_node: final_task is the very dict found under validated_task, or the
\* normalized_task dict itself, so setting final_task['qa_metadata'] also
\* changes that dict
qa_node(s, reply, t) ==
    IF CallFailure(reply) # NoneStr THEN Fail(CallFailure(reply), "qa", s)
    ELSE
    LET qa_result == reply.obj
    IN  IF qa_result.qa_decision = "rejected"
        THEN Ok([s EXCEPT !.qa_result = Some(qa_result),
                          !.rejection_reason = qa_result.rejection_reason,
                          !.rejection_category = qa_result.rejection_category,
                          !.status = "rejected"])
        ELSE
        LET chosen == IF qa_result.validated_task.present
                      THEN qa_result.validated_task.value
                      ELSE s.normalized_task
        IN  IF chosen = None THEN Fail("TypeError", "qa", s)
            ELSE
            LET final == Payload(The(chosen).keys \cup {"qa_metadata"},
                                 The(chosen).chain)
            IN  IF qa_result.validated_task.present
                THEN Ok([s EXCEPT
                         !.qa_result = Some([qa_result EXCEPT
                                             !.validated_task = KeyValue(final)]),
                         !.final_task = Some(final)])
                ELSE Ok([s EXCEPT
                         !.qa_result = Some(qa_result),
                         !.normalized_task = Some(final),
                         !.final_task = Some(final)])

\* prioritization_node, had it fetched the weights again for its prompt
prioritization_node_refetch(s, reply, t) ==
    IF CallFailure(reply) # NoneStr THEN Fail(CallFailure(reply), "prioritization", s)
    ELSE Ok([s EXCEPT !.priority_weights = fetch_priority_weights(store),
                      !.final_task = Some(reply.obj), !.status = "completed"])

prioritization_node(s, reply, t) ==
    IF CallFailure(reply) # NoneStr THEN Fail(CallFailure(reply), "prioritization", s)
    ELSE Ok([s EXCEPT !.final_task = Some(reply.obj), !.status = "completed"])

\* rejection_node, had it released the grounding data of the rejected run
rejection_node_releases_context(s) ==
    [s EXCEPT !.db_context = [participants |-> 0, patients |-> 0,
                              categories |-> 0, slas |-> 0],
              !.priority_weights = [rows |-> 0]]

\* rejection_node only prints
rejection_node(s) == s

\* qa_router, had it not looked at the status
qa_router_always_prioritization(s) == "prioritization"

\* qa_router
qa_router(s) == IF s.status = "rejected" THEN "rejection" ELSE "prioritization"

\* build_pipeline_graph, had the prioritization edge led to END
NextNode_skip_save(node, s) ==
    CASE node = "extraction" -> "normalization"
      [] node = "normalization" -> "qa"
      [] node = "qa" -> qa_router(s)
      [] node = "prioritization" -> "END"
      [] node = "save" -> "END"
      [] node = "rejection" -> "END"

\* build_pipeline_graph, had the save edge led back to prioritization
NextNode_save_loops(node, s) ==
    CASE node = "extraction" -> "normalization"
      [] node = "normalization" -> "qa"
      [] node = "qa" -> qa_router(s)
      [] node = "prioritization" -> "save"
      [] node = "save" -> "prioritization"
      [] node = "rejection" -> "END"

\* build_pipeline_graph, had the rejection edge led back to extraction
NextNode_rejection_retries(node, s) ==
    CASE node = "extraction" -> "normalization"
      [] node = "normalization" -> "qa"
      [] node = "qa" -> qa_router(s)
      [] node = "prioritization" -> "save"
      [] node = "save" -> "END"
      [] node = "rejection" -> "extraction"

\* build_pipeline_graph: the node that follows `node` when it returned s
NextNode(node, s) ==
    CASE node = "extraction" -> "normalization"
      [] node = "normalization" -> "qa"
      [] node = "qa" -> qa_router(s)
      [] node = "prioritization" -> "save"
      [] node = "save" -> "END"
      [] node = "rejection" -> "END"

----------------------------------------------------------------------------
(* run_pipeline and process_transcript *)

\* the initial_state literal of run_pipeline, before its three fetch calls
\* have been evaluated
InitialState(transcript, transcript_id) ==
    [transcript |-> transcript,
     transcript_id |-> transcript_id,
     db_context |-> [participants |-> NotFetched, patients |-> NotFetched,
                     categories |-> NotFetched, slas |-> NotFetched],
     policy_snapshot |-> [policy_version |-> Absent, rules |-> Absent],
     priority_weights |-> [rows |-> NotFetched],
     extracted_task |-> None,
     normalized_task |-> None,
     qa_result |-> None,
     final_task |-> None,
     rejection_reason |-> NoneStr,
     rejection_category |-> NoneStr,
     lineage_metadata |-> "{}",
     saved_task_id |-> None,
     status |-> "pending"]

NoState == InitialState(NoneStr, None)

\* the dict run_pipeline returns for a final state
NoResult ==
    [keys |-> {}, status |-> NoneStr, rejection_reason |-> NoneStr,
     rejection_category |-> NoneStr, task_id |-> None, task |-> None]

run_pipeline_result(final_state) ==
    IF final_state.status = "rejected"
    THEN [NoResult EXCEPT
            !.keys = {"status", "rejection_reason", "rejection_category"},
            !.status = "rejected",
            !.rejection_reason = final_state.rejection_reason,
            !.rejection_category = final_state.rejection_category]
    ELSE [NoResult EXCEPT
            !.keys = {"status", "task_id", "task"},
            !.status = "completed",
            !.task_id = final_state.saved_task_id,
            !.task = final_state.final_task]

\* what leaves process_transcript: a value it returns or an exception it raises
NoResponse ==
    [how |-> NoneStr, type |-> NoneStr, status_code |-> 0, body |-> NoResult,
     error_type |-> NoneStr]

\* the try block of process_transcript: a rejection is an HTTPException that
\* is returned, not raised
process_transcript_result(res) ==
    IF res.status = "rejected"
    THEN [how |-> "return", type |-> "HTTPException", status_code |-> 422,
          body |-> res, error_type |-> NoneStr]
    ELSE [how |-> "return", type |-> "dict", status_code |-> 200,
          body |-> [res EXCEPT !.status = "completed"], error_type |-> NoneStr]

\* the except clauses of process_transcript: main.py never imports json, so
\* evaluating `except json.JSONDecodeError` raises NameError for any exception
process_transcript_except(e) ==
    [how |-> "raise", type |-> "NameError", status_code |-> 500,
     body |-> NoResult, error_type |-> NoneStr]

----------------------------------------------------------------------------
(* Initial state *)

\* a complete task, as an earlier request left it in the tasks table
EarlierTask ==
    Payload(RequiredBySave \cup {PC},
            <<LineageEntry("extraction", "v1", 0),
              LineageEntry("normalization", "v1", 0)>>)

EarlierRows(n) ==
    [i \in 1..n |-> [task_id |-> i, transcript_id |-> None,
                     task |-> EarlierTask, status |-> "pending"]]

PolicyRow(version, own) ==
    [policy_version |-> version,
     policy_data |-> [rules |-> "rules", policy_version |-> own]]

InitPolicies ==
    {None, Some(PolicyRow(VersionNames[1], Absent)),
     Some(PolicyRow(VersionNames[1], "v0"))}

Init ==
    /\ \E n \in 0..MaxInitRows, p \in InitPolicies :
          store = [participants |-> 0, patients |-> 0, categories |-> 0,
                   slas |-> 0, policy |-> p, weights |-> 0,
                   tasks |-> EarlierRows(n), next_id |-> n + 1]
    /\ mutations = 0
    /\ now = 1
    /\ pc = [r \in Runs |-> "idle"]
    /\ state = [r \in Runs |-> NoState]
    /\ exc = [r \in Runs |-> NoExc]
    /\ result = [r \in Runs |-> NoResult]
    /\ response = [r \in Runs |-> NoResponse]
    /\ executed = [r \in Runs |-> <<>>]
    /\ llm_calls = [r \in Runs |-> 0]
    /\ written = [r \in Runs |-> {}]

----------------------------------------------------------------------------
(* Actions *)

\* another process commits a change to the reference tables: new reference
\* rows, a new active policy version, new weights
MutateStore ==
    /\ mutations < MaxMutations
    /\ mutations' = mutations + 1
    /\ store' = [store EXCEPT
                   !.participants = @ + 1,
                   !.patients = @ + 1,
                   !.categories = @ + 1,
                   !.slas = @ + 1,
                   !.weights = @ + 1,
                   !.policy = Some(PolicyRow(VersionNames[mutations + 2], Absent))]
    /\ UNCHANGED <<now, pc, state, exc, result, response, executed, llm_calls,
                   written>>

\* POST /process_transcript arrives and run_pipeline is entered
Start(r) ==
    /\ pc[r] = "idle"
    /\ \E transcript \in Transcripts, transcript_id \in TranscriptIds :
          state' = [state EXCEPT ![r] = InitialState(transcript, transcript_id)]
    /\ pc' = [pc EXCEPT ![r] = "fetch_db_context"]
    /\ UNCHANGED <<store, mutations, now, exc, result, response, executed,
                   llm_calls, written>>

\* Fetch, had run_pipeline logged a failed fetch and gone on without the data
Fetch_continue(r, at, fetched, next) ==
    /\ pc[r] = at
    /\ \/ /\ state' = [state EXCEPT ![r] = fetched]
          /\ pc' = [pc EXCEPT ![r] = next]
          /\ exc' = exc
       \/ /\ exc' = [exc EXCEPT ![r] = Raised("psycopg2.Error", at)]
          /\ pc' = [pc EXCEPT ![r] = next]
          /\ state' = state
    /\ UNCHANGED <<store, mutations, now, result, response, executed,
                   llm_calls, written>>

\* a fetch either returns what the store holds now or raises
Fetch(r, at, fetched, next) ==
    /\ pc[r] = at
    /\ \/ /\ state' = [state EXCEPT ![r] = fetched]
          /\ pc' = [pc EXCEPT ![r] = next]
          /\ exc' = exc
       \/ /\ exc' = [exc EXCEPT ![r] = Raised("psycopg2.Error", at)]
          /\ pc' = [pc EXCEPT ![r] = "raised"]
          /\ state' = state
    /\ UNCHANGED <<store, mutations, now, result, response, executed,
                   llm_calls, written>>

\* where run_pipeline stands while fetch_db_context runs its i-th SELECT
AtQuery(i) == IF i = 1 THEN "fetch_db_context"
              ELSE "fetch_db_context." \o ContextTables[i]

FetchDbContext(r) ==
    \E i \in 1..Len(ContextTables) :
        Fetch(r, AtQuery(i),
              [state[r] EXCEPT !.db_context =
                   fetch_db_context(store, @, ContextTables[i])],
              IF i < Len(ContextTables) THEN AtQuery(i + 1)
              ELSE "fetch_active_policy")

FetchActivePolicy(r) ==
    Fetch(r, "fetch_active_policy",
          [state[r] EXCEPT !.policy_snapshot = fetch_active_policy(store)],
          "fetch_priority_weights")

FetchPriorityWeights(r) ==
    Fetch(r, "fetch_priority_weights",
          [state[r] EXCEPT !.priority_weights = fetch_priority_weights(store)],
          "extraction")

\* AgentNode, had the node caught its exception and marked the run rejected
AgentNode_catch(r, node, reply, out) ==
    /\ pc[r] = node
    /\ executed' = [executed EXCEPT ![r] = Append(@, node)]
    /\ llm_calls' = [llm_calls EXCEPT
                       ![r] = IF reply.kind = "render_error" THEN @ ELSE @ + 1]
    /\ now' = now + 1
    /\ IF out.exc = NoExc
       THEN /\ state' = [state EXCEPT ![r] = out.state]
            /\ pc' = [pc EXCEPT ![r] = NextNode(node, out.state)]
            /\ exc' = exc
       ELSE /\ exc' = [exc EXCEPT ![r] = out.exc]
            /\ pc' = [pc EXCEPT ![r] = "rejection"]
            /\ state' = [state EXCEPT ![r].status = "rejected",
                                      ![r].rejection_reason = out.exc.type]
    /\ UNCHANGED <<store, mutations, result, response, written>>

\* AgentNode, had the PipelineState been one module-level dict that every
\* request works on
AgentNode_shared_state(r, node, reply, out) ==
    /\ pc[r] = node
    /\ executed' = [executed EXCEPT ![r] = Append(@, node)]
    /\ llm_calls' = [llm_calls EXCEPT
                       ![r] = IF reply.kind = "render_error" THEN @ ELSE @ + 1]
    /\ now' = now + 1
    /\ IF out.exc = NoExc
       THEN /\ state' = [q \in Runs |-> out.state]
            /\ pc' = [pc EXCEPT ![r] = NextNode(node, out.state)]
            /\ exc' = exc
       ELSE /\ exc' = [exc EXCEPT ![r] = out.exc]
            /\ pc' = [pc EXCEPT ![r] = "raised"]
            /\ state' = state
    /\ UNCHANGED <<store, mutations, result, response, written>>

\* graph.invoke runs one agent node: the node is entered, llm.invoke is
\* called unless load_prompt raised, and the node returns or raises
AgentNode(r, node, reply, out) ==
    /\ pc[r] = node
    /\ executed' = [executed EXCEPT ![r] = Append(@, node)]
    /\ llm_calls' = [llm_calls EXCEPT
                       ![r] = IF reply.kind = "render_error" THEN @ ELSE @ + 1]
    /\ now' = now + 1
    /\ IF out.exc = NoExc
       THEN /\ state' = [state EXCEPT ![r] = out.state]
            /\ pc' = [pc EXCEPT ![r] = NextNode(node, out.state)]
            /\ exc' = exc
       ELSE /\ exc' = [exc EXCEPT ![r] = out.exc]
            /\ pc' = [pc EXCEPT ![r] = "raised"]
            /\ state' = state
    /\ UNCHANGED <<store, mutations, result, response, written>>

Extraction(r) ==
    \E reply \in TaskReplies(ExtractionObjects) :
        AgentNode(r, "extraction", reply, extraction_node(state[r], reply, now))

Normalization(r) ==
    /\ pc[r] = "normalization"
    /\ \E reply \in TaskReplies(NormalizationObjects(state[r])) :
        AgentNode(r, "normalization", reply,
                  normalization_node(state[r], reply, now))

QA(r) ==
    /\ pc[r] = "qa"
    /\ \E reply \in QAReplies(state[r]) :
        AgentNode(r, "qa", reply, qa_node(state[r], reply, now))

Prioritization(r) ==
    /\ pc[r] = "prioritization"
    /\ \E reply \in TaskReplies(PrioritizationObjects(state[r])) :
        AgentNode(r, "prioritization", reply,
                  prioritization_node(state[r], reply, now))

\* Save, had save_node caught what save_task_to_db raises and returned the state
Save_swallow(r) ==
    /\ pc[r] = "save"
    /\ executed' = [executed EXCEPT ![r] = Append(@, "save")]
    /\ LET task == The(state[r].final_task) IN
       \/ /\ pc' = [pc EXCEPT ![r] = "END"]
          /\ UNCHANGED <<store, state, written, exc>>
       \/ /\ ~SaveKeyError(task)
          /\ store' = save_task_to_db(store, task, state[r].transcript_id)
          /\ written' = [written EXCEPT ![r] = @ \cup {store.next_id}]
          /\ state' = [state EXCEPT ![r].saved_task_id = Some(store.next_id)]
          /\ pc' = [pc EXCEPT ![r] = "END"]
          /\ exc' = exc
    /\ UNCHANGED <<mutations, now, result, response, llm_calls>>

\* Save, had save_task_to_db committed the INSERT before the step that fails
Save_row_then_fail(r) ==
    /\ pc[r] = "save"
    /\ executed' = [executed EXCEPT ![r] = Append(@, "save")]
    /\ LET task == The(state[r].final_task) IN
       \/ /\ SaveKeyError(task)
          /\ exc' = [exc EXCEPT ![r] = Raised("KeyError", "save")]
          /\ pc' = [pc EXCEPT ![r] = "raised"]
          /\ UNCHANGED <<store, state, written>>
       \/ /\ ~SaveKeyError(task)
          /\ exc' = [exc EXCEPT ![r] = Raised("psycopg2.Error", "save")]
          /\ pc' = [pc EXCEPT ![r] = "raised"]
          /\ store' = save_task_to_db(store, task, state[r].transcript_id)
          /\ UNCHANGED <<state, written>>
       \/ /\ ~SaveKeyError(task)
          /\ store' = save_task_to_db(store, task, state[r].transcript_id)
          /\ written' = [written EXCEPT ![r] = @ \cup {store.next_id}]
          /\ state' = [state EXCEPT ![r].saved_task_id = Some(store.next_id)]
          /\ pc' = [pc EXCEPT ![r] = NextNode("save", state'[r])]
          /\ exc' = exc
    /\ UNCHANGED <<mutations, now, result, response, llm_calls>>

\* save_node: save_task_to_db raises KeyError on a missing key before the
\* INSERT is sent; otherwise the INSERT commits or the database raises
Save(r) ==
    /\ pc[r] = "save"
    /\ executed' = [executed EXCEPT ![r] = Append(@, "save")]
    /\ LET task == The(state[r].final_task) IN
       \/ /\ SaveKeyError(task)
          /\ exc' = [exc EXCEPT ![r] = Raised("KeyError", "save")]
          /\ pc' = [pc EXCEPT ![r] = "raised"]
          /\ UNCHANGED <<store, state, written>>
       \/ /\ ~SaveKeyError(task)
          /\ exc' = [exc EXCEPT ![r] = Raised("psycopg2.Error", "save")]
          /\ pc' = [pc EXCEPT ![r] = "raised"]
          /\ UNCHANGED <<store, state, written>>
       \/ /\ ~SaveKeyError(task)
          /\ store' = save_task_to_db(store, task, state[r].transcript_id)
          /\ written' = [written EXCEPT ![r] = @ \cup {store.next_id}]
          /\ state' = [state EXCEPT ![r].saved_task_id = Some(store.next_id)]
          /\ pc' = [pc EXCEPT ![r] = NextNode("save", state'[r])]
          /\ exc' = exc
    /\ UNCHANGED <<mutations, now, result, response, llm_calls>>

Rejection(r) ==
    /\ pc[r] = "rejection"
    /\ executed' = [executed EXCEPT ![r] = Append(@, "rejection")]
    /\ state' = [state EXCEPT ![r] = rejection_node(state[r])]
    /\ pc' = [pc EXCEPT ![r] = NextNode("rejection", state'[r])]
    /\ UNCHANGED <<store, mutations, now, exc, result, response, llm_calls,
                   written>>

\* graph.invoke returned: run_pipeline builds its result
Return(r) ==
    /\ pc[r] = "END"
    /\ result' = [result EXCEPT ![r] = run_pipeline_result(state[r])]
    /\ pc' = [pc EXCEPT ![r] = "returned"]
    /\ UNCHANGED <<store, mutations, now, state, exc, response, executed,
                   llm_calls, written>>

\* process_transcript turns the result into its return value
Respond(r) ==
    /\ pc[r] = "returned"
    /\ response' = [response EXCEPT ![r] = process_transcript_result(result[r])]
    /\ pc' = [pc EXCEPT ![r] = "done"]
    /\ UNCHANGED <<store, mutations, now, state, exc, result, executed,
                   llm_calls, written>>

\* an exception left run_pipeline and reaches the except clauses
HandleException(r) ==
    /\ pc[r] = "raised"
    /\ response' = [response EXCEPT ![r] = process_transcript_except(exc[r])]
    /\ pc' = [pc EXCEPT ![r] = "done"]
    /\ UNCHANGED <<store, mutations, now, state, exc, result, executed,
                   llm_calls, written>>

Next ==
    \/ MutateStore
    \/ \E r \in One :
        \/ Start(r)
        \/ FetchDbContext(r)
        \/ FetchActivePolicy(r)
        \/ FetchPriorityWeights(r)
        \/ Extraction(r)
        \/ Normalization(r)
        \/ QA(r)
        \/ Prioritization(r)
        \/ Save(r)
        \/ Rejection(r)
        \/ Return(r)
        \/ Respond(r)
        \/ HandleException(r)

Spec == Init /\ [][Next]_vars

\* a request that has arrived keeps running: run_pipeline is sequential
\* blocking code, and every call it waits for returns or raises
RunStep(r) ==
    \/ FetchDbContext(r)
    \/ FetchActivePolicy(r)
    \/ FetchPriorityWeights(r)
    \/ Extraction(r)
    \/ Normalization(r)
    \/ QA(r)
    \/ Prioritization(r)
    \/ Save(r)
    \/ Rejection(r)
    \/ Return(r)
    \/ Respond(r)
    \/ HandleException(r)

SpecLive == Spec /\ \A r \in One : WF_vars(RunStep(r))

----------------------------------------------------------------------------
(* The Persister on its own: a caller holds a final task and calls
   save_node / save_task_to_db for it, and calls it again when it returned
   or raised *)

PersisterTasks ==
    { Payload(RequiredBySave \cup {PC},
              <<LineageEntry("extraction", "v1", 1),
                LineageEntry("normalization", "v1", 2)>>),
      Payload(RequiredBySave \cup {PC, "enriched_fields"},
              <<LineageEntry("extraction", "v1", 1),
                LineageEntry("normalization", "v1", 2)>>),
      Payload((RequiredBySave \cup {PC}) \ {"qa_metadata"},
              <<LineageEntry("extraction", "v1", 1),
                LineageEntry("normalization", "v1", 2)>>) }

InitPersister ==
    /\ \E n \in 0..MaxInitRows :
          store = [participants |-> 0, patients |-> 0, categories |-> 0,
                   slas |-> 0, policy |-> Some(PolicyRow(VersionNames[1], Absent)),
                   weights |-> 0, tasks |-> EarlierRows(n), next_id |-> n + 1]
    /\ mutations = 0
    /\ now = 1
    /\ pc = [r \in Runs |-> IF r \in One THEN "save" ELSE "idle"]
    /\ \E task \in PersisterTasks, transcript_id \in TranscriptIds :
          state = [r \in Runs |->
                     IF r \in One
                     THEN [InitialState("Dr. Chen here. Review medications.",
                                        transcript_id)
                             EXCEPT !.final_task = Some(task),
                                    !.status = "completed"]
                     ELSE NoState]
    /\ exc = [r \in Runs |-> NoExc]
    /\ result = [r \in Runs |-> NoResult]
    /\ response = [r \in Runs |-> NoResponse]
    /\ executed = [r \in Runs |-> <<>>]
    /\ llm_calls = [r \in Runs |-> 0]
    /\ written = [r \in Runs |-> {}]

\* the caller calls save_node once more with the same state
SaveAgain(r) ==
    /\ pc[r] \in {"END", "raised"}
    /\ Len(executed[r]) < MaxSaves
    /\ pc' = [pc EXCEPT ![r] = "save"]
    /\ exc' = [exc EXCEPT ![r] = NoExc]
    /\ UNCHANGED <<store, mutations, now, state, result, response, executed,
                   llm_calls, written>>

NextPersister == \E r \in One : Save(r) \/ SaveAgain(r)

SpecPersister == InitPersister /\ [][NextPersister]_vars

----------------------------------------------------------------------------
(* Two requests at once, in any interleaving.  Each request has its own
   transcript; the generation service echoes the task it is shown, the QA
   reply accepts or rejects, and the failures are a QA reply that does not
   parse and an INSERT the database refuses; no other process commits to
   the reference tables meanwhile *)

ConcTranscript(r) ==
    IF r \in One THEN "Dr. Chen here. Review medications."
    ELSE "Someone needs to do something."

ConcFailures == {NoExc, Raised("JSONDecodeError", "qa"),
                 Raised("psycopg2.Error", "save")}

Echoed(task, n) ==
    /\ Len(task.chain) = n
    /\ \A i \in 1..n : task.chain[i].agent_version = "1.0.0"

ConcReplies(r) ==
    LET s == state[r] IN
    /\ s.transcript = ConcTranscript(r)
    /\ s.transcript_id = None
    /\ exc[r] \in ConcFailures
    /\ \A e \in s.extracted_task : e.keys = {"description", LM, PC} /\ Echoed(e, 1)
    /\ \A n \in s.normalized_task : Echoed(n, 2)
    /\ \A q \in s.qa_result :
          /\ q.qa_decision \in {"accepted", "rejected"}
          /\ ~q.validated_task.present
          /\ q.qa_decision = "rejected" => q.rejection_category = "missing_data"
                                         /\ q.rejection_reason # NoneStr
    /\ \A f \in s.final_task :
          /\ Echoed(f, 2)
          /\ s.status = "completed" => RequiredBySave \subseteq f.keys

InitConc == Init /\ store.policy = Some(PolicyRow(VersionNames[1], Absent))

NextConc ==
    \E r \in Runs :
        /\ \/ Start(r)
           \/ FetchDbContext(r)
           \/ FetchActivePolicy(r)
           \/ FetchPriorityWeights(r)
           \/ Extraction(r)
           \/ Normalization(r)
           \/ QA(r)
           \/ Prioritization(r)
           \/ Save(r)
           \/ Rejection(r)
           \/ Return(r)
           \/ Respond(r)
           \/ HandleException(r)
        /\ ConcReplies(r)'

SpecConc == InitConc /\ [][NextConc]_vars

----------------------------------------------------------------------------
(* Outcomes *)

\* what the caller of process_transcript got
Completed(r) ==
    /\ response[r].how = "return"
    /\ response[r].type = "dict"
    /\ response[r].body.status = "completed"

Rejected(r) ==
    /\ response[r].how = "return"
    /\ response[r].type = "HTTPException"
    /\ response[r].body.status = "rejected"

SystemError(r) == response[r].how = "raise"

Outcomes(r) ==
    {o \in {"completed", "rejected", "error"} :
        \/ o = "completed" /\ Completed(r)
        \/ o = "rejected" /\ Rejected(r)
        \/ o = "error" /\ SystemError(r)}

\* what the caller of run_pipeline got
PipelineOutcomes(r) ==
    {o \in {"completed", "rejected", "error"} :
        \/ o = "completed" /\ result[r].status = "completed"
        \/ o = "rejected" /\ result[r].status = "rejected"
        \/ o = "error" /\ exc[r] # NoExc}

Ended(r) == pc[r] \in {"returned", "raised", "done"}

RowsWithId(id) == {i \in 1..Len(store.tasks) : store.tasks[i].task_id = id}

----------------------------------------------------------------------------
(* Claims *)

\* C1: a run that ended gave exactly one of completed, rejected and system
\* error, from run_pipeline and from process_transcript alike, and the
\* outcome is whole: a completed result has its task and its task_id, a
\* rejected result has neither, and an error comes with no result at all.
C1_ExactlyOneOutcome ==
    \A r \in Runs :
        /\ Ended(r) => Cardinality(PipelineOutcomes(r)) = 1
        /\ ~Ended(r) => PipelineOutcomes(r) = {}
        /\ pc[r] = "done" => /\ Cardinality(Outcomes(r)) = 1
                             /\ Outcomes(r) = PipelineOutcomes(r)
        /\ pc[r] # "done" => Outcomes(r) = {}
        /\ result[r].status = "completed" =>
              /\ result[r].keys = {"status", "task_id", "task"}
              /\ result[r].task_id # None
              /\ result[r].task # None
        /\ result[r].status = "rejected" =>
              /\ result[r].keys = {"status", "rejection_reason",
                                   "rejection_category"}
              /\ result[r].task_id = None
              /\ result[r].task = None
        /\ exc[r] # NoExc => result[r] = NoResult

\* C1 witness: the store refused the row after all four agents had answered,
\* and the caller got the error and nothing else
C1_Witness ==
    \E r \in Runs :
        /\ pc[r] = "done"
        /\ exc[r].at = "save"
        /\ Outcomes(r) = {"error"}
        /\ state[r].status = "completed"

\* the verdict of the QA reply of request r, once qa_node has returned
QAReturned(r) == state[r].qa_result # None
Verdict(r) == The(state[r].qa_result).qa_decision

\* C2: after QA the run goes on to prioritization exactly when the verdict
\* is "accepted", and to rejection for every other verdict.
C2_AcceptedIffPrioritization ==
    \A r \in Runs :
        QAReturned(r) /\ Len(executed[r]) > 3 =>
            /\ Verdict(r) = "accepted" <=> executed[r][4] = "prioritization"
            /\ Verdict(r) # "accepted" <=> executed[r][4] = "rejection"

\* C3: in a run whose verdict is not "accepted", prioritization and save
\* never execute, no task id is set or returned, and the run writes no row.
C3_NotAcceptedNeverPersists ==
    \A r \in Runs :
        QAReturned(r) /\ Verdict(r) # "accepted" =>
            /\ \A i \in 1..Len(executed[r]) :
                   executed[r][i] \notin {"prioritization", "save"}
            /\ state[r].saved_task_id = None
            /\ result[r].task_id = None
            /\ written[r] = {}

\* the lineage chain of the task payload a run ends with
FinalChain(r) ==
    IF state[r].final_task # None THEN The(state[r].final_task).chain
    ELSE The(state[r].normalized_task).chain

\* C4: the chain has 3 entries at the end of a rejected run and 4 at the end
\* of a completed run.
C4_ChainLengthPerStage ==
    \A r \in Runs :
        pc[r] \in {"returned", "done"} =>
            /\ result[r].status = "rejected" => Len(FinalChain(r)) = 3
            /\ result[r].status = "completed" => Len(FinalChain(r)) = 4

\* C5: saved_task_id is set by save_node only, after the insert succeeded;
\* a completed result carries the id of a row this run wrote, whose task is
\* the task returned; and a pending run is never reported as completed.
C5_CompletedOnlyWithPersistedId ==
    \A r \in Runs :
        /\ state[r].saved_task_id # None =>
              /\ executed[r] # <<>>
              /\ executed[r][Len(executed[r])] = "save"
              /\ state[r].saved_task_id \subseteq written[r]
        /\ \A id \in written[r] : Cardinality(RowsWithId(id)) = 1
        /\ result[r].status = "completed" =>
              /\ state[r].status = "completed"
              /\ result[r].task_id # None
              /\ result[r].task_id = state[r].saved_task_id
              /\ \E i \in RowsWithId(The(result[r].task_id)) :
                     Some(store.tasks[i].task) = result[r].task
        /\ Completed(r) =>
              /\ response[r].body.task_id # None
              /\ response[r].body.task_id \subseteq written[r]
              /\ state[r].status = "completed"

\* C5 witness: a completed response whose task_id is a row of this run
C5_Witness ==
    \E r \in Runs :
        /\ Completed(r)
        /\ response[r].body.task_id = Some(store.next_id - 1)
        /\ written[r] = {store.next_id - 1}

RejectionSet(s) == s.rejection_reason # NoneStr \/ s.rejection_category # NoneStr

\* C6: the rejection fields and final_task are never both set; the
\* rejection is set only in a rejected run, and final_task only in a run
\* that is not rejected.
C6_RejectionExcludesFinal ==
    \A r \in Runs :
        /\ ~(RejectionSet(state[r]) /\ state[r].final_task # None)
        /\ RejectionSet(state[r]) => state[r].status = "rejected"
        /\ state[r].final_task # None => state[r].status # "rejected"
        /\ state[r].status = "rejected" => state[r].final_task = None

\* C6 witness: QA accepted with a reply that also carried a rejection reason
C6_Witness ==
    \E r \in Runs :
        /\ QAReturned(r)
        /\ The(state[r].qa_result).rejection_reason # NoneStr
        /\ Verdict(r) = "accepted"
        /\ state[r].final_task # None

\* C7: the status starts as pending and only moves forward: rejected stays
\* rejected, completed stays completed, and nothing returns to pending.
C7_StatusMonotone ==
    [][\A r \in Runs :
          /\ pc[r] = "idle" => state'[r].status = "pending"
          /\ state[r].status = "rejected" => state'[r].status = "rejected"
          /\ state[r].status = "completed" => state'[r].status = "completed"
          /\ state'[r].status = "pending" => state[r].status = "pending"]_vars

\* C7 witness: a rejected run went through rejection_node, result
\* construction and the response
C7_Witness ==
    \E r \in Runs :
        /\ pc[r] = "done"
        /\ state[r].status = "rejected"
        /\ Rejected(r)

IsPrefix(a, b) == Len(a) <= Len(b) /\ SubSeq(b, 1, Len(a)) = a

AcceptPath == <<"extraction", "normalization", "qa", "prioritization", "save">>
RejectPath == <<"extraction", "normalization", "qa", "rejection">>

\* C8: the nodes a run has entered are a prefix of extraction,
\* normalization, qa, prioritization, save or of extraction, normalization,
\* qa, rejection: in that order, none twice, save only after prioritization;
\* and a run that returned went all the way down one of the two.
C8_StageOrder ==
    \A r \in Runs :
        /\ IsPrefix(executed[r], AcceptPath) \/ IsPrefix(executed[r], RejectPath)
        /\ pc[r] \in {"END", "returned"} => executed[r] \in {AcceptPath, RejectPath}
        /\ pc[r] \in {"extraction", "normalization", "qa", "prioritization",
                      "save", "rejection"} =>
              \/ IsPrefix(Append(executed[r], pc[r]), AcceptPath)
              \/ IsPrefix(Append(executed[r], pc[r]), RejectPath)

\* C8 witness: a run that persisted its task entered all five nodes
C8_Witness ==
    \E r \in Runs : executed[r] = AcceptPath /\ written[r] # {}

AgentNodes == {"extraction", "normalization", "qa", "prioritization"}

\* the llm.invoke calls of a run whose last node raised exception e
CallsWhenRaised(r) ==
    IF exc[r].type = "FileNotFoundError"
    THEN Len(executed[r]) - 1 ELSE Len(executed[r])

\* C9: when an agent node raises, the run ends as a system error: the
\* failed node is the last one entered, rejection is not entered, the run
\* is not marked or reported rejected, each node entered made at most one
\* call, nothing is returned and no row is written.
C9_StageFailureIsSystemError ==
    \A r \in Runs :
        exc[r].at \in AgentNodes =>
            /\ pc[r] \in {"raised", "done"}
            /\ executed[r][Len(executed[r])] = exc[r].at
            /\ IsPrefix(executed[r], AcceptPath)
            /\ llm_calls[r] = CallsWhenRaised(r)
            /\ state[r].status # "rejected"
            /\ result[r] = NoResult
            /\ written[r] = {}
            /\ pc[r] = "done" => Outcomes(r) = {"error"}

\* C9 witness: the QA reply did not parse, and the caller got the error
C9_Witness ==
    \E r \in Runs :
        /\ exc[r] = Raised("JSONDecodeError", "qa")
        /\ pc[r] = "done"
        /\ llm_calls[r] = 3

PayloadsOf(s) == s.extracted_task \cup s.normalized_task \cup s.final_task

LastOf(chain) == chain[Len(chain)]

AfterLoad == AgentNodes \cup {"save", "rejection", "END", "returned", "raised",
                              "done"}

FetchPoints == {AtQuery(i) : i \in 1..Len(ContextTables)}
                  \cup {"fetch_active_policy", "fetch_priority_weights"}

Snapshots(s) == <<s.db_context, s.policy_snapshot, s.priority_weights>>

\* C11: once the context of a run is loaded, no step -- of the run or of a
\* process that commits to the reference tables -- changes the db_context,
\* policy_snapshot or priority_weights the stages read, and the outcome
\* stands whatever is committed afterwards; a fetch that runs after a commit
\* reads the committed data.
C11_MutationAfterLoadInvisible ==
    [][\A r \in Runs :
          /\ pc[r] \in AfterLoad /\ exc[r].at \notin FetchPoints =>
                /\ Snapshots(state'[r]) = Snapshots(state[r])
                /\ state[r].db_context.slas # NotFetched
                /\ state[r].policy_snapshot.policy_version # Absent
                /\ state[r].priority_weights.rows # NotFetched
          /\ store' # store /\ pc' = pc =>
                /\ state' = state
                /\ result' = result
                /\ response' = response
                /\ exc' = exc
          /\ pc[r] = "fetch_active_policy" /\ pc'[r] = "fetch_priority_weights" =>
                state'[r].policy_snapshot = fetch_active_policy(store)
          /\ pc[r] = "fetch_priority_weights" /\ pc'[r] = "extraction" =>
                state'[r].priority_weights = fetch_priority_weights(store)]_vars

\* C11 witness: a run completed on the data it loaded although the store
\* had moved on before its stages ran
C11_Witness ==
    \E r \in Runs :
        /\ Completed(r)
        /\ mutations > 0
        /\ state[r].priority_weights.rows < store.weights
        /\ state[r].db_context.slas < store.slas
        /\ The(state[r].extracted_task).chain[1].timestamp > 0

\* C12: when a fetch of the context load raises, the run is a system error
\* and no stage ran: no node was entered, no llm.invoke call was made, no
\* stage output is set and the run wrote no row.
C12_LoadFailureAbortsBeforeStages ==
    \A r \in Runs :
        exc[r].at \in FetchPoints =>
            /\ pc[r] \in {"raised", "done"}
            /\ executed[r] = <<>>
            /\ llm_calls[r] = 0
            /\ state[r].extracted_task = None
            /\ state[r].normalized_task = None
            /\ state[r].qa_result = None
            /\ state[r].final_task = None
            /\ state[r].saved_task_id = None
            /\ written[r] = {}
            /\ result[r] = NoResult
            /\ pc[r] = "done" => Outcomes(r) = {"error"}

\* C12 witness: the policy query failed after the four context queries had
\* succeeded, and the caller got the error
C12_Witness ==
    \E r \in Runs :
        /\ exc[r] = Raised("psycopg2.Error", "fetch_active_policy")
        /\ pc[r] = "done"
        /\ state[r].db_context.slas # NotFetched

\* C13: when save_task_to_db raises, the run is a system error although all
\* four agents succeeded: nothing is returned, saved_task_id stays unset and
\* the tasks table is as it was before the call.
C13_SaveFailureIsSystemError ==
    [][\A r \in Runs :
          /\ exc'[r].at = "save" =>
                /\ store'.tasks = store.tasks
                /\ pc'[r] \in {"raised", "done"}
                /\ executed'[r] = AcceptPath
                /\ llm_calls'[r] = 4
                /\ result'[r] = NoResult
                /\ state'[r].saved_task_id = None
                /\ written'[r] = {}
                /\ ~Completed(r)'
                /\ pc'[r] = "done" => Outcomes(r)' = {"error"}
          /\ pc[r] = "save" /\ pc'[r] # "save"
                /\ SaveKeyError(The(state[r].final_task)) =>
                exc'[r] = Raised("KeyError", "save")]_vars

\* C13 witness: the prioritized task lacks qa_metadata, the insert raised
\* KeyError, and the caller got the error
C13_Witness ==
    \E r \in Runs :
        /\ exc[r] = Raised("KeyError", "save")
        /\ pc[r] = "done"
        /\ state[r].final_task # None
        /\ "qa_metadata" \notin The(state[r].final_task).keys
        /\ "priority_score" \in The(state[r].final_task).keys

\* C14: every exception that leaves run_pipeline reaches the caller of
\* process_transcript as a raised HTTPException with status 500 whose detail
\* has a message and an error_type, and never as a rejected or completed
\* response.
C14_ErrorsCarryKindTag ==
    \A r \in Runs :
        pc[r] = "done" /\ exc[r] # NoExc =>
            /\ response[r].how = "raise"
            /\ response[r].type = "HTTPException"
            /\ response[r].status_code = 500
            /\ response[r].error_type \in {"json_parse_error", "pipeline_error"}
            /\ ~Completed(r)
            /\ ~Rejected(r)

\* the categories the spec names for a rejection
RejectionCategories == {"missing_data", "ambiguous_reference", "policy_violation"}

\* C15: a rejected result has a reason that is not null and a category of the
\* fixed set.
C15_RejectionHasReasonAndCategory ==
    \A r \in Runs :
        result[r].status = "rejected" =>
            /\ result[r].rejection_reason # NoneStr
            /\ result[r].rejection_category \in RejectionCategories

\* C16: a stage-output slot is written once, by its own stage: it changes
\* only from None, extracted_task in extraction_node, normalized_task in
\* normalization_node, final_task in one node.
C16_SlotsWrittenOnce ==
    [][\A r \in Runs :
          /\ state'[r].extracted_task # state[r].extracted_task =>
                state[r].extracted_task = None /\ pc[r] = "extraction"
          /\ state'[r].normalized_task # state[r].normalized_task =>
                state[r].normalized_task = None /\ pc[r] = "normalization"
          /\ state'[r].final_task # state[r].final_task =>
                state[r].final_task = None]_vars

\* the lineage chain of the task payload as the run carries it on
CurrentChain(s) ==
    IF s.final_task # None THEN The(s.final_task).chain
    ELSE IF s.normalized_task # None THEN The(s.normalized_task).chain
    ELSE IF s.extracted_task # None THEN The(s.extracted_task).chain
    ELSE <<>>

\* C19: the chain only grows at its end: the chain before a step is a prefix
\* of the chain after it, and the task returned has the chain of the run.
C19_ChainAppendOnly ==
    [][\A r \in Runs :
          /\ IsPrefix(CurrentChain(state[r]), CurrentChain(state'[r]))
          /\ result'[r].task # None =>
                The(result'[r].task).chain = CurrentChain(state'[r])]_vars

\* C20: every key of final_task as qa_node left it is a key of final_task as
\* prioritization_node leaves it, which is the task handed to
\* save_task_to_db.
C20_FieldsAdditive ==
    [][\A r \in Runs :
          pc[r] = "prioritization" /\ pc'[r] = "save" =>
              The(state[r].final_task).keys \subseteq
                  The(state'[r].final_task).keys]_vars

TaskIds(tasks) == {tasks[i].task_id : i \in 1..Len(tasks)}

\* C17: every call of save_task_to_db that returns adds one row at the end
\* of the tasks table, with the task and transcript_id given, status
\* 'pending' and an id no earlier row has, and returns that id; the rows
\* already there stay as they are.  A second call with the same task is no
\* exception.
C17_EverySaveAddsOneFreshRow ==
    [][\A r \in Runs :
          /\ pc[r] = "save" /\ pc'[r] = "END" =>
                /\ Len(store'.tasks) = Len(store.tasks) + 1
                /\ SubSeq(store'.tasks, 1, Len(store.tasks)) = store.tasks
                /\ LET row == store'.tasks[Len(store'.tasks)] IN
                      /\ row.task_id \notin TaskIds(store.tasks)
                      /\ row.task_id \notin written[r]
                      /\ row.task = The(state[r].final_task)
                      /\ row.transcript_id = state[r].transcript_id
                      /\ row.status = "pending"
                      /\ state'[r].saved_task_id = Some(row.task_id)
                      /\ written'[r] = written[r] \cup {row.task_id}
          /\ Cardinality(TaskIds(store'.tasks)) = Len(store'.tasks)]_vars

\* C17 witness: two calls with the same task and transcript_id left two rows
\* with two ids
C17_Witness ==
    \E r \in Runs : \E i, j \in 1..Len(store.tasks) :
        /\ i < j
        /\ store.tasks[i].task = store.tasks[j].task
        /\ store.tasks[i].transcript_id = store.tasks[j].transcript_id
        /\ store.tasks[i].task_id # store.tasks[j].task_id
        /\ {store.tasks[i].task_id, store.tasks[j].task_id} \subseteq written[r]

\* everything a request holds
Local(r) == <<pc[r], state[r], exc[r], result[r], response[r], executed[r],
              llm_calls[r], written[r]>>

\* C18: a step of one request changes nothing another request holds; the
\* rows of two requests are different rows, and a completed request wrote
\* exactly one, the one whose id it returns.
C18_RunsIndependent ==
    [][/\ \A a \in Runs :
             Local(a)' # Local(a) => \A b \in Runs \ {a} : Local(b)' = Local(b)
       /\ \A a \in Runs :
             /\ Cardinality(written'[a]) <= 1
             /\ written'[a] \subseteq TaskIds(store'.tasks)
             /\ \A b \in Runs \ {a} : written'[a] \cap written'[b] = {}
             /\ Completed(a)' =>
                   /\ written'[a] = response'[a].body.task_id
                   /\ Cardinality(written'[a]) = 1
       /\ Cardinality(TaskIds(store'.tasks)) = Len(store'.tasks)]_vars

\* C18 witness: both requests completed, each with its own row, and the
\* second row was written by the request that started extraction first
C18_Witness ==
    \E a, b \in Runs :
        /\ a # b
        /\ Completed(a) /\ Completed(b)
        /\ The(written[a]) < The(written[b])
        /\ The(state[b].extracted_task).chain[1].timestamp <
              The(state[a].extracted_task).chain[1].timestamp
        /\ state[a].transcript # state[b].transcript

\* C21: a request that has arrived gets its one outcome, and on the way
\* there it makes at most four generation-service calls, writes at most one
\* row and enters no graph node twice.
C21_RunTerminates ==
    /\ [][\A r \in One :
             /\ llm_calls'[r] <= 4
             /\ Cardinality(written'[r]) <= 1
             /\ \A i, j \in 1..Len(executed'[r]) :
                   executed'[r][i] = executed'[r][j] => i = j]_vars
    /\ \A r \in One :
          pc[r] # "idle" ~> (pc[r] = "done" /\ Cardinality(Outcomes(r)) = 1)

\* C21 witness: all four generation-service calls were made and the row was
\* written before the request completed
C21_Witness ==
    \E r \in One :
        /\ pc[r] = "done"
        /\ Completed(r)
        /\ llm_calls[r] = 4
        /\ Cardinality(written[r]) = 1
        /\ Len(executed[r]) = 5

\* the policy versions that commits by other processes activate, by the
\* number of the commit
CommittedVersion(g) == VersionNames[g + 1]

\* the state of the reference tables after g commits, as far as a loaded
\* context shows it
OfGeneration(s, g) ==
    /\ \A i \in 1..Len(ContextTables) : s.db_context[ContextTables[i]] = g
    /\ s.priority_weights.rows = g
    /\ IF g > 0
       THEN s.policy_snapshot.policy_version = CommittedVersion(g)
       ELSE \A k \in 1..MaxMutations :
               s.policy_snapshot.policy_version # CommittedVersion(k)

\* C22: the db_context, policy_snapshot and priority_weights a run works with
\* all show one state of the store, one that the store was in.
C22_OneConsistentSnapshot ==
    \A r \in Runs :
        pc[r] \in AfterLoad /\ exc[r].at \notin FetchPoints =>
            \E g \in 0..mutations : OfGeneration(state[r], g)

\* C23: once normalization_node has set normalized_task, no step changes
\* it; when QA accepts with no validated_task in its reply, normalized_task
\* is after qa_node what it was before.
C23_NormalizedTaskFrozen ==
    [][\A r \in Runs :
          state[r].normalized_task # None =>
              state'[r].normalized_task = state[r].normalized_task]_vars

\* the inputs of a run and the reference data it loaded
Inputs(s) == <<s.transcript, s.transcript_id, s.db_context, s.policy_snapshot,
               s.priority_weights>>

\* C24: from the first graph node on, no step changes the transcript, the
\* transcript_id, db_context, policy_snapshot or priority_weights of a run,
\* whichever way the run ends; transcript and transcript_id stand from the
\* arrival of the request.
C24_InputsImmutable ==
    [][\A r \in Runs :
          /\ pc[r] \in AfterLoad => Inputs(state'[r]) = Inputs(state[r])
          /\ pc[r] # "idle" =>
                /\ state'[r].transcript = state[r].transcript
                /\ state'[r].transcript_id = state[r].transcript_id]_vars

\* C24 witness: a rejected run has passed rejection_node, after a commit to
\* the reference tables, and still holds the data it loaded before
C24_Witness ==
    \E r \in Runs :
        /\ Rejected(r)
        /\ executed[r][Len(executed[r])] = "rejection"
        /\ state[r].transcript \in Transcripts
        /\ state[r].transcript_id = Some(7)
        /\ mutations > 0
        /\ OfGeneration(state[r], 0)

\* what fetch_active_policy returns when no row of task_policies is active
DefaultPolicy == [policy_version |-> "none", rules |-> "{}"]

\* C25: with no active policy row the fetch that returns gives the default
\* snapshot, version "none" with empty rules, and the run goes on to its
\* stages; a run that holds the default snapshot keeps it, and the records
\* extraction_node and normalization_node append carry the version "none".
C25_NoPolicyGivesDefault ==
    [][\A r \in Runs :
          /\ pc[r] = "fetch_active_policy" /\ store.policy = None
                /\ pc'[r] # pc[r] /\ exc'[r] = NoExc =>
                   /\ pc'[r] = "fetch_priority_weights"
                   /\ state'[r].policy_snapshot = DefaultPolicy
          /\ pc[r] \in AgentNodes /\ state[r].policy_snapshot = DefaultPolicy =>
                /\ state'[r].policy_snapshot = DefaultPolicy
                /\ pc[r] = "extraction" /\ pc'[r] = "normalization" =>
                      LastOf(The(state'[r].extracted_task).chain).policy_version
                          = "none"
                /\ pc[r] = "normalization" /\ pc'[r] = "qa" =>
                      LastOf(The(state'[r].normalized_task).chain).policy_version
                          = "none"]_vars

\* C25 witness: a run that found no active policy completed, all four
\* stages ran, and both appended records carry "none"
C25_Witness ==
    \E r \in Runs :
        /\ Completed(r)
        /\ state[r].policy_snapshot = DefaultPolicy
        /\ llm_calls[r] = 4
        /\ LET chain == The(state[r].normalized_task).chain IN
              /\ Len(chain) = 2
              /\ chain[1] = LineageEntry("extraction", "none", chain[1].timestamp)
              /\ chain[2] = LineageEntry("normalization", "none", chain[2].timestamp)

\* C26: the snapshot fetch_active_policy returns for an active row carries
\* the policy_version of that row's column, whatever policy_data holds.
C26_SnapshotVersionIsColumn ==
    [][\A r \in Runs :
          pc[r] = "fetch_active_policy" /\ store.policy # None
             /\ pc'[r] = "fetch_priority_weights" =>
                 state'[r].policy_snapshot.policy_version =
                     The(store.policy).policy_version]_vars

====
